---- MODULE Spec2Model ----
(***************************************************************************)
(* Model of ctutil.LogInfo (src/ctutil/loginfo.go): the per-log cached     *)
(* signed tree head guarded by an RWMutex, and the verification calls      *)
(* VerifySCTSignature, VerifyInclusionLatest, VerifyInclusion and          *)
(* VerifyInclusionAt, run by concurrent goroutines against one LogInfo.    *)
(* Every goroutine is a small state machine whose program counter names    *)
(* the source line it is about to execute.  Transport calls (GetSTH,       *)
(* GetProofByHash) are in flight while the goroutine sits at the matching  *)
(* program counter, and return any result the log or the network can give. *)
(* The functions that build LogInfo objects and the map of them by key     *)
(* hash (NewLogInfo, NewLogInfoOverDNS, LogInfoByKeyHash, ...) run in a     *)
(* frame of their own, reg.                                                *)
(*                                                                         *)
(* Specifications: Spec (two goroutines, any calls), SpecSeq (one caller,  *)
(* with an observer of what the caller sees around each call), SpecLatest  *)
(* (only VerifyInclusionLatest calls), SpecLock (LastSTH and SetSTH while   *)
(* verification calls are in the transport, on this LogInfo and on a       *)
(* second one, peer, with fairness), SpecRegistry (the construction        *)
(* functions over every log list).                                         *)
(***************************************************************************)
EXTENDS Integers, Sequences, FiniteSets, TLC

(* ------------------------------ bounds --------------------------------- *)
\* Largest tree size a tree head or a VerifyInclusionAt caller names.
MaxTreeSize == 2
\* Largest timestamp a caller or an SCT supplies (timestamps are 1..MaxTimestamp).
MaxTimestamp == 2

\* The goroutines that call into the LogInfo.
Threads == {"t1", "t2"}
NoThread == "none"

\* li.Description of the modelled LogInfo.
Description == "Test Log"

(* --------------------- RFC 6962 hashing (rfc6962.DefaultHasher) -------- *)
\* A hash is modelled by the byte string it digests, so that it is injective:
\* HashLeaf prefixes 0, HashChildren prefixes 1 (the RFC 6962 domain separation).
HashLeaf(data) == <<0>> \o data
HashChildren(l, r) == <<1>> \o l \o r

\* ct.LeafHashForLeaf: the leaf hash of the leaf with the given timestamp in
\* its TimestampedEntry (tls.Marshal of the leaf is modelled by <<timestamp>>).
LeafHashForLeaf(timestamp) == HashLeaf(<<timestamp>>)

RECURSIVE BitLen(_)
\* bits.Len64
BitLen(n) == IF n = 0 THEN 0 ELSE 1 + BitLen(n \div 2)

RECURSIVE OnesCount(_)
\* bits.OnesCount64
OnesCount(n) == IF n = 0 THEN 0 ELSE (n % 2) + OnesCount(n \div 2)

RECURSIVE Xor(_, _)
\* index ^ (size - 1)
Xor(a, b) ==
    IF a = 0 /\ b = 0 THEN 0
    ELSE (((a % 2) + (b % 2)) % 2) + (2 * Xor(a \div 2, b \div 2))

RECURSIVE Pow2(_)
Pow2(k) == IF k = 0 THEN 1 ELSE 2 * Pow2(k - 1)

\* merkle.innerProofSize
innerProofSize(index, size) == BitLen(Xor(index, size - 1))

RECURSIVE chainInner(_, _, _, _)
\* merkle.chainInner, from position i (1-based) of the proof on
chainInner(seed, proof, index, i) ==
    IF i > Len(proof) THEN seed
    ELSE IF ((index \div Pow2(i - 1)) % 2) = 0
         THEN chainInner(HashChildren(seed, proof[i]), proof, index, i + 1)
         ELSE chainInner(HashChildren(proof[i], seed), proof, index, i + 1)

RECURSIVE chainBorderRight(_, _, _)
\* merkle.chainBorderRight, from position i (1-based) of the proof on
chainBorderRight(seed, proof, i) ==
    IF i > Len(proof) THEN seed
    ELSE chainBorderRight(HashChildren(proof[i], seed), proof, i + 1)

\* merkle.LogVerifier.VerifyInclusionProof as called by VerifyInclusionAt:
\* "" when the proof recomputes to root, else the verifier's error.
VerifyInclusionProof(leafIndex, treeSize, proof, root, leafHash) ==
    IF leafIndex < 0 THEN "invalid leafIndex < 0"
    ELSE IF treeSize < 0 THEN "invalid treeSize < 0"
    ELSE IF leafIndex >= treeSize THEN "leafIndex is beyond treeSize"
    ELSE LET inner == innerProofSize(leafIndex, treeSize)
             border == OnesCount(leafIndex \div Pow2(inner))
         IN  IF Len(proof) # inner + border THEN "wrong proof size"
             ELSE LET res == chainInner(leafHash, SubSeq(proof, 1, inner), leafIndex, 1)
                      calcRoot == chainBorderRight(res, SubSeq(proof, inner + 1, Len(proof)), 1)
                  IN  IF calcRoot # root THEN "calculated root mismatch" ELSE ""

(* ----------------------- the log behind the transport ------------------ *)
Timestamps == 1 .. MaxTimestamp
TreeSizes == 1 .. MaxTreeSize

\* The honest log holds, at index i-1, the entry it timestamped i.
RECURSIVE MTH(_, _)
\* RFC 6962 Merkle tree hash of the honest log's leaves lo..hi (1-based, lo <= hi)
MTH(lo, hi) ==
    IF lo = hi THEN LeafHashForLeaf(lo)
    ELSE LET k == Pow2(BitLen(hi - lo) - 1)
         IN  HashChildren(MTH(lo, lo + k - 1), MTH(lo + k, hi))

\* Root hashes a tree head may carry: the honest root of each size.
RootHashes == {MTH(1, n) : n \in TreeSizes}

\* ct.SignedTreeHead values the transport may return.  A tree head whose root
\* is not the honest root of its size is a misbehaving log's.
STHs == [TreeSize : TreeSizes, SHA256RootHash : RootHashes]

\* *ct.SignedTreeHead: the nil pointer, or a pointer to one tree head.
Nil == <<>>
Ptr(s) == <<s>>
STHPtrs == {Nil} \cup {Ptr(s) : s \in STHs}

\* Hashes that may occur in an audit path.
PathHashes == {LeafHashForLeaf(i) : i \in TreeSizes} \cup RootHashes
MaxPathLen == BitLen(MaxTreeSize - 1)
AuditPaths == UNION {[1 .. n -> PathHashes] : n \in 0 .. MaxPathLen}

\* ct.GetProofByHashResponse values the transport may return.
ProofResponses == [LeafIndex : -1 .. MaxTreeSize, AuditPath : AuditPaths]
\* rsp before GetProofByHash has returned a response (no response has this index).
NoRsp == [LeafIndex |-> -1 - MaxTreeSize, AuditPath |-> <<>>]

\* Errors of a transport call: cancellation of ctx, or any other failure.
TransportErrs == {"context canceled", "transport failure"}

\* ct.SignedCertificateTimestamp: its timestamp, and its signature, modelled by
\* the timestamp of the entry the log signed (0: a signature over nothing valid).
SCTs == [Timestamp : Timestamps, Signature : 0 .. MaxTimestamp]
NoSCT == [Timestamp |-> 0, Signature |-> 0]

(* ------------------------------ errors --------------------------------- *)
\* The error values of the package are all built by fmt.Errorf with %v verbs:
\* a *errors.errorString whose only content is the formatted text.  The text is
\* kept as the format string and the arguments formatted into it.
NoErr == [dynType |-> "nil", format |-> "", q |-> "", d |-> -1, v |-> ""]
Errorf(format, q, d, v) ==
    [dynType |-> "*errors.errorString", format |-> format, q |-> q, d |-> d, v |-> v]

VARIABLES
    lastSTH,    \* li.lastSTH: Nil or a pointer to a tree head
    mu,         \* li.mu: [w |-> the goroutine holding Lock, r |-> those holding RLock]
    leafTs,     \* leaf.TimestampedEntry.Timestamp of the leaf the callers share (built with 0)
    g,          \* g[t]: goroutine t's frame (program counter, parameters, locals, results)
    h,          \* what an observer of a single caller recorded (SpecSeq only)
    reg,        \* the frame of a call that builds LogInfo objects (SpecRegistry only)
    peer        \* a second LogInfo and the frames of the calls made on it (SpecLock only)

vars == <<lastSTH, mu, leafTs, g, h, reg, peer>>

NoHash == <<>>

\* ct.MerkleTreeLeaf holds its entry by pointer (TimestampedEntry *TimestampedEntry):
\* the by-value copy of leaf a method receives points at the entry of the caller's
\* leaf, and an assignment to leaf.TimestampedEntry.Timestamp writes that entry.
TimestampedEntry_SetTimestamp(entryTimestamp, timestamp) == timestamp

\* The frame of a goroutine that is not inside a call.
\*   pc         where the goroutine is
\*   op         the exported method it called
\*   sth        the local sth of VerifyInclusionLatest / VerifyInclusion, LastSTH's
\*              result, SetSTH's parameter
\*   treeSize, rootHash, timestamp   VerifyInclusionAt's parameters
\*   sct        VerifySCTSignature's parameter
\*   leafHash, rsp   VerifyInclusionAt's locals
\*   ret, err   the values returned
\*   nGetSTH, nGetProof   Client.GetSTH / Client.GetProofByHash calls made by the call
\*   fetched    the tree head Client.GetSTH returned to the call (Nil: none did)
Idle ==
    [pc |-> "idle", op |-> "none", sth |-> Nil, treeSize |-> 0, rootHash |-> NoHash,
     timestamp |-> 0, sct |-> NoSCT, leafHash |-> NoHash, rsp |-> NoRsp,
     ret |-> 0, err |-> NoErr, nGetSTH |-> 0, nGetProof |-> 0, fetched |-> Nil]

\* The observer's record before any call:
\*   cache0, leaf0   li.lastSTH and the leaf's timestamp when the current call started
\*   prev            the call that returned before the current one: the method, the
\*                   GetSTH calls it made, whether a GetSTH of it failed
\*   kept            the tree head fetched by the last call that fetched one and then
\*                   returned an error; Nil once a VerifyInclusion or SetSTH call
\*                   has returned since
NoCall == [op |-> "none", nGetSTH |-> 0, failed |-> FALSE]

\* A map[[sha256.Size]byte]*LogInfo value: the nil map, or the map with content m.
NilMap == [isNil |-> TRUE, m |-> <<>>]
Map(m) == [isNil |-> FALSE, m |-> m]

\* The frame of a construction call before any is made.
\*   pc       "idle", "loop" (at the head of logInfoByKeyHash's for), "done"
\*   op       the exported function called
\*   ll       ll.Logs (for NewLogInfo...: the one entry passed)
\*   i        the position in ll.Logs of the entry the loop takes next
\*   result   the local map result of logInfoByKeyHash
\*   ret, li, err   the values returned (map or *LogInfo, and the error)
\*   made     the calls of client.New and dnsclient.New made so far
NoBuild ==
    [pc |-> "idle", op |-> "none", ll |-> <<>>, i |-> 0, result |-> <<>>,
     ret |-> NilMap, li |-> Nil, err |-> NoErr, made |-> <<>>]

\* The frame of a goroutine that is not inside a call on the second LogInfo:
\* pc, op and sth as in Idle.
PeerIdle == [pc |-> "idle", op |-> "none", sth |-> Nil]

\* A second LogInfo as newLogInfo returns it, with no call made on it:
\*   lastSTH, mu   its own cached tree head and its own mutex
\*   g             g[t]: the frame of goroutine t's call on it
NoPeer ==
    [lastSTH |-> Nil, mu |-> [w |-> NoThread, r |-> {}], g |-> [t \in Threads |-> PeerIdle]]

\* The arguments of the SetSTH calls made on the second LogInfo: the nil
\* pointer and one tree head.
STHPtrs_Peer == {Nil, Ptr([TreeSize |-> 1, SHA256RootHash |-> MTH(1, 1)])}

Init ==
    /\ reg = NoBuild
    /\ peer = NoPeer
    /\ lastSTH = Nil
    /\ mu = [w |-> NoThread, r |-> {}]
    /\ leafTs = 0
    /\ g = [t \in Threads |-> Idle]
    /\ h = [cache0 |-> Nil, leaf0 |-> 0, prev |-> NoCall, kept |-> Nil]

(* ------------------------------ li.mu ---------------------------------- *)
\* sync.RWMutex: RLock waits for the writer, Lock for the writer and the readers.
CanRLock == mu.w = NoThread
CanLock == mu.w = NoThread /\ mu.r = {}

\* A call returns (index, e) to its caller: the frame is popped, so that the
\* parameters and VerifyInclusionAt's locals are gone; what stays for the
\* caller to see is the method called, the results, the tree head the call
\* held in sth, and the number of transport calls it made.
Return(f, index, e) ==
    [Idle EXCEPT !.pc = "done", !.op = f.op, !.ret = index, !.err = e,
                 !.sth = f.sth, !.nGetSTH = f.nGetSTH, !.nGetProof = f.nGetProof,
                 !.fetched = f.fetched]

(* -------------------------- VerifyInclusionAt -------------------------- *)
\* A call of VerifyInclusionAt that takes the root hash from the cache as it is
\* at the call, and the tree size from the caller's tree head.
VerifyInclusionAt_EnterCacheRoot(f, size, root) ==
    [f EXCEPT !.pc = "VerifyInclusionAt_timestamp", !.treeSize = size,
              !.rootHash = IF lastSTH = Nil THEN root ELSE lastSTH[1].SHA256RootHash]

\* The call li.VerifyInclusionAt(ctx, leaf, timestamp, size, root) made from frame f.
VerifyInclusionAt_Enter(f, size, root) ==
    [f EXCEPT !.pc = "VerifyInclusionAt_timestamp", !.treeSize = size, !.rootHash = root]

\* leaf.TimestampedEntry.Timestamp = timestamp: the store goes through the
\* TimestampedEntry pointer of the leaf, which the by-value copy of leaf shares
\* with the caller's leaf.
VerifyInclusionAt_Timestamp(t) ==
    /\ g[t].pc = "VerifyInclusionAt_timestamp"
    /\ leafTs' = TimestampedEntry_SetTimestamp(leafTs, g[t].timestamp)
    /\ g' = [g EXCEPT ![t].pc = "VerifyInclusionAt_leafHash"]
    /\ UNCHANGED <<lastSTH, mu>>

\* The error of a failed ct.LeafHashForLeaf.
LeafHashErr(f, cause) == Errorf("failed to create leaf hash: %v", "", -1, cause)

\* leafHash, err := ct.LeafHashForLeaf(&leaf), then the call of GetProofByHash.
\* encodable: whether tls.Marshal accepts the leaf the caller passed.
VerifyInclusionAt_LeafHash(t, encodable) ==
    /\ g[t].pc = "VerifyInclusionAt_leafHash"
    /\ g' = [g EXCEPT ![t] =
                IF encodable
                THEN [@ EXCEPT !.pc = "GetProofByHash",
                               !.leafHash = LeafHashForLeaf(leafTs),
                               !.nGetProof = @ + 1]
                ELSE Return(@, -1, LeafHashErr(@, "tls: cannot marshal"))]
    /\ UNCHANGED <<lastSTH, mu, leafTs>>

\* The error of a failed li.Client.GetProofByHash.
GetProofErr(f, cause) ==
    Errorf("failed to GetProofByHash(sct,size=%d): %v", "", f.treeSize, cause)

\* What VerifyInclusionAt does with a failed GetProofByHash: return -1, fmt.Errorf(...)
GetProofByHash_Failed(f, cause) == Return(f, -1, GetProofErr(f, cause))

\* A failed proof fetch that also drops the cached tree head.
GetProofByHash_FailEvict(t, cause) ==
    /\ g[t].pc = "GetProofByHash"
    /\ g' = [g EXCEPT ![t] = GetProofByHash_Failed(@, cause)]
    /\ lastSTH' = Nil
    /\ UNCHANGED <<mu, leafTs>>

\* li.Client.GetProofByHash(ctx, leafHash[:], treeSize) fails with cause.
GetProofByHash_Fail(t, cause) ==
    /\ g[t].pc = "GetProofByHash"
    /\ g' = [g EXCEPT ![t] = GetProofByHash_Failed(@, cause)]
    /\ UNCHANGED <<lastSTH, mu, leafTs>>

\* The error of a proof the Merkle verifier rejects.
VerifyProofErr(f, cause) ==
    Errorf("failed to verify inclusion proof at size %d: %v", "", f.treeSize, cause)

\* A verdict taken against the cached tree head, when there is one, instead of
\* the tree size and root hash the caller passed.
ProofVerdictCached(f, r) ==
    IF lastSTH = Nil
    THEN VerifyInclusionProof(r.LeafIndex, f.treeSize, r.AuditPath, f.rootHash, f.leafHash)
    ELSE VerifyInclusionProof(r.LeafIndex, lastSTH[1].TreeSize, r.AuditPath,
                              lastSTH[1].SHA256RootHash, f.leafHash)

\* The verdict of verifier.VerifyInclusionProof on response r: "" or its error.
ProofVerdict(f, r) ==
    VerifyInclusionProof(r.LeafIndex, f.treeSize, r.AuditPath, f.rootHash, f.leafHash)

\* A VerifyInclusionAt that does not look at the verifier's verdict.
VerifyInclusionAt_ResultUnchecked(f, r) == Return(f, r.LeafIndex, NoErr)

\* What VerifyInclusionAt returns once response r is there.
VerifyInclusionAt_Result(f, r) ==
    IF ProofVerdict(f, r) # ""
    THEN Return(f, -1, VerifyProofErr(f, ProofVerdict(f, r)))
    ELSE Return(f, r.LeafIndex, NoErr)

\* li.Client.GetProofByHash(ctx, leafHash[:], treeSize) returns response r, then
\* verifier.VerifyInclusionProof(rsp.LeafIndex, ...) and the return.
GetProofByHash_Return(t, r) ==
    /\ g[t].pc = "GetProofByHash"
    /\ g' = [g EXCEPT ![t] = [VerifyInclusionAt_Result(@, r) EXCEPT !.rsp = r]]
    /\ UNCHANGED <<lastSTH, mu, leafTs>>

\* A goroutine calls li.VerifyInclusionAt(ctx, leaf, ts, size, root).
VerifyInclusionAt_Call(t, ts, size, root) ==
    /\ g[t].pc = "idle"
    /\ g' = [g EXCEPT ![t] =
                VerifyInclusionAt_Enter([@ EXCEPT !.op = "VerifyInclusionAt", !.timestamp = ts],
                                        size, root)]
    /\ UNCHANGED <<lastSTH, mu, leafTs>>

(* ------------------------------ LastSTH -------------------------------- *)
\* A VerifyInclusionLatest that fetches a tree head whatever LastSTH returned.
LastSTH_ContinueAlwaysFetch(f, p) ==
    IF f.op = "LastSTH" THEN Return([f EXCEPT !.sth = p], 0, NoErr)
    ELSE [f EXCEPT !.sth = p, !.pc = "GetSTH", !.nGetSTH = @ + 1]

\* A VerifyInclusionLatest that stores the tree head it holds also when that
\* is the cached one.
LastSTH_ContinueStoreCached(f, p) ==
    IF f.op = "LastSTH" THEN Return([f EXCEPT !.sth = p], 0, NoErr)
    ELSE IF p = Nil THEN [f EXCEPT !.sth = p, !.pc = "GetSTH", !.nGetSTH = @ + 1]
    ELSE [f EXCEPT !.sth = p, !.pc = "SetSTH_Lock"]

\* Where a frame continues once li.LastSTH() has returned p to it:
\* VerifyInclusionLatest's "if sth == nil" (it calls GetSTH, or goes on to
\* VerifyInclusionAt with the cached tree head).
LastSTH_Continue(f, p) ==
    IF f.op = "LastSTH" THEN Return([f EXCEPT !.sth = p], 0, NoErr)
    ELSE IF p = Nil THEN [f EXCEPT !.sth = p, !.pc = "GetSTH", !.nGetSTH = @ + 1]
    ELSE VerifyInclusionAt_Enter([f EXCEPT !.sth = p], p[1].TreeSize, p[1].SHA256RootHash)

\* li.mu.RLock()
LastSTH_RLock(t) ==
    /\ g[t].pc = "LastSTH_RLock"
    /\ CanRLock
    /\ mu' = [mu EXCEPT !.r = @ \cup {t}]
    /\ g' = [g EXCEPT ![t].pc = "LastSTH_read"]
    /\ UNCHANGED <<lastSTH, leafTs>>

\* A LastSTH whose read lock is not released on return, so that its caller is
\* still holding it in whatever it does next.
LastSTH_ReadKeepLock(t) ==
    /\ g[t].pc = "LastSTH_read"
    /\ g' = [g EXCEPT ![t] = LastSTH_Continue(@, lastSTH)]
    /\ UNCHANGED <<lastSTH, mu, leafTs>>

\* return li.lastSTH, then the deferred li.mu.RUnlock()
LastSTH_Read(t) ==
    /\ g[t].pc = "LastSTH_read"
    /\ mu' = [mu EXCEPT !.r = @ \ {t}]
    /\ g' = [g EXCEPT ![t] = LastSTH_Continue(@, lastSTH)]
    /\ UNCHANGED <<lastSTH, leafTs>>

\* A goroutine calls li.LastSTH().
LastSTH_Call(t) ==
    /\ g[t].pc = "idle"
    /\ g' = [g EXCEPT ![t].pc = "LastSTH_RLock", ![t].op = "LastSTH"]
    /\ UNCHANGED <<lastSTH, mu, leafTs>>

(* ------------------------------ SetSTH --------------------------------- *)
\* Where a frame continues once li.SetSTH(sth) has returned:
\* VerifyInclusionLatest and VerifyInclusion go on to VerifyInclusionAt.
SetSTH_Continue(f) ==
    IF f.op = "SetSTH" THEN Return(f, 0, NoErr)
    ELSE VerifyInclusionAt_Enter(f, f.sth[1].TreeSize, f.sth[1].SHA256RootHash)

\* li.mu.Lock()
SetSTH_Lock(t) ==
    /\ g[t].pc = "SetSTH_Lock"
    /\ CanLock
    /\ mu' = [mu EXCEPT !.w = t]
    /\ g' = [g EXCEPT ![t].pc = "SetSTH_write"]
    /\ UNCHANGED <<lastSTH, leafTs>>

\* A store that is not atomic: the tree size of the new head with the root of the old.
SetSTH_StoreTorn(old, p) ==
    IF old # Nil /\ p # Nil
    THEN Ptr([TreeSize |-> p[1].TreeSize, SHA256RootHash |-> old[1].SHA256RootHash])
    ELSE p

\* A store that keeps the larger tree.
SetSTH_StoreMonotonic(old, p) ==
    IF old # Nil /\ p # Nil /\ p[1].TreeSize < old[1].TreeSize THEN old ELSE p

\* The value the assignment li.lastSTH = sth stores, given the old value.
SetSTH_Store(old, p) == p

\* li.lastSTH = sth, then the deferred li.mu.Unlock()
SetSTH_Write(t) ==
    /\ g[t].pc = "SetSTH_write"
    /\ lastSTH' = SetSTH_Store(lastSTH, g[t].sth)
    /\ mu' = [mu EXCEPT !.w = NoThread]
    /\ g' = [g EXCEPT ![t] = SetSTH_Continue(@)]
    /\ UNCHANGED leafTs

\* A goroutine calls li.SetSTH(p).
SetSTH_Call(t, p) ==
    /\ g[t].pc = "idle"
    /\ g' = [g EXCEPT ![t].pc = "SetSTH_Lock", ![t].op = "SetSTH", ![t].sth = p]
    /\ UNCHANGED <<lastSTH, mu, leafTs>>

(* ------------------- Client.GetSTH and its two callers ----------------- *)
\* The error of a failed li.Client.GetSTH.
GetSTHErr(f, cause) ==
    Errorf("failed to get current STH for %q log: %v", Description, -1, cause)

\* A caller that answers a failed GetSTH by calling GetSTH once more.
GetSTH_FailedRetry(f, cause) ==
    IF f.nGetSTH < 2 THEN [f EXCEPT !.nGetSTH = @ + 1]
    ELSE Return(f, -1, GetSTHErr(f, cause))

\* What the caller does with a failed GetSTH: if err != nil { return -1, ... }
GetSTH_Failed(f, cause) == Return(f, -1, GetSTHErr(f, cause))

\* li.Client.GetSTH(ctx) fails with cause.
GetSTH_Fail(t, cause) ==
    /\ g[t].pc = "GetSTH"
    /\ g' = [g EXCEPT ![t] = GetSTH_Failed(@, cause)]
    /\ UNCHANGED <<lastSTH, mu, leafTs>>

\* A caller that goes on to VerifyInclusionAt without li.SetSTH(sth).
GetSTH_ReturnedNoStore(f, s) ==
    VerifyInclusionAt_Enter([f EXCEPT !.sth = Ptr(s), !.fetched = Ptr(s)],
                            s.TreeSize, s.SHA256RootHash)

\* What the caller does with the tree head s GetSTH returned: li.SetSTH(sth)
GetSTH_Returned(f, s) ==
    [f EXCEPT !.pc = "SetSTH_Lock", !.sth = Ptr(s), !.fetched = Ptr(s)]

\* li.Client.GetSTH(ctx) returns tree head s; the caller goes on to li.SetSTH(sth).
GetSTH_Return(t, s) ==
    /\ g[t].pc = "GetSTH"
    /\ g' = [g EXCEPT ![t] = GetSTH_Returned(@, s)]
    /\ UNCHANGED <<lastSTH, mu, leafTs>>

\* A goroutine calls li.VerifyInclusionLatest(ctx, leaf, ts): sth := li.LastSTH()
VerifyInclusionLatest_Call(t, ts) ==
    /\ g[t].pc = "idle"
    /\ g' = [g EXCEPT ![t].pc = "LastSTH_RLock", ![t].op = "VerifyInclusionLatest",
                      ![t].timestamp = ts]
    /\ UNCHANGED <<lastSTH, mu, leafTs>>

\* A VerifyInclusion that reuses a cached tree head, as VerifyInclusionLatest does.
VerifyInclusion_StartCached(f, ts, cached) ==
    IF cached = Nil
    THEN [f EXCEPT !.pc = "GetSTH", !.op = "VerifyInclusion", !.timestamp = ts,
                   !.nGetSTH = @ + 1]
    ELSE VerifyInclusionAt_Enter(
             [f EXCEPT !.op = "VerifyInclusion", !.timestamp = ts, !.sth = cached],
             cached[1].TreeSize, cached[1].SHA256RootHash)

\* The first statement of VerifyInclusion, whatever the cache holds:
\* sth, err := li.Client.GetSTH(ctx)
VerifyInclusion_Start(f, ts, cached) ==
    [f EXCEPT !.pc = "GetSTH", !.op = "VerifyInclusion", !.timestamp = ts,
              !.nGetSTH = @ + 1]

\* A goroutine calls li.VerifyInclusion(ctx, leaf, ts).
VerifyInclusion_Call(t, ts) ==
    /\ g[t].pc = "idle"
    /\ g' = [g EXCEPT ![t] = VerifyInclusion_Start(@, ts, lastSTH)]
    /\ UNCHANGED <<lastSTH, mu, leafTs>>

(* -------------------------- VerifySCTSignature ------------------------- *)
\* A goroutine calls li.VerifySCTSignature(s, leaf).
VerifySCTSignature_Call(t, s) ==
    /\ g[t].pc = "idle"
    /\ g' = [g EXCEPT ![t].pc = "VerifySCTSignature_timestamp",
                      ![t].op = "VerifySCTSignature", ![t].sct = s,
                      ![t].timestamp = s.Timestamp]
    /\ UNCHANGED <<lastSTH, mu, leafTs>>

\* leaf.TimestampedEntry.Timestamp = sct.Timestamp
VerifySCTSignature_Timestamp(t) ==
    /\ g[t].pc = "VerifySCTSignature_timestamp"
    /\ leafTs' = TimestampedEntry_SetTimestamp(leafTs, g[t].sct.Timestamp)
    /\ g' = [g EXCEPT ![t].pc = "VerifySCTSignature_verify"]
    /\ UNCHANGED <<lastSTH, mu>>

\* li.Verifier.VerifySCTSignature(sct, ct.LogEntry{Leaf: leaf}): the signature
\* is valid when it is the log's signature over the entry as now timestamped.
SignatureValid(s, entryTimestamp) == s.Signature = entryTimestamp

\* The error of a failed signature check.
SignatureErr(f) ==
    Errorf("failed to verify SCT signature from log %q: %v", Description, -1,
           "failed to verify ecdsa signature")

\* What VerifySCTSignature returns.
VerifySCTSignature_Result(f, entryTimestamp) ==
    IF SignatureValid(f.sct, entryTimestamp)
    THEN Return(f, 0, NoErr)
    ELSE Return(f, 0, SignatureErr(f))

\* if err := li.Verifier.VerifySCTSignature(...); err != nil { return ... }; return nil
VerifySCTSignature_Verify(t) ==
    /\ g[t].pc = "VerifySCTSignature_verify"
    /\ g' = [g EXCEPT ![t] = VerifySCTSignature_Result(@, leafTs)]
    /\ UNCHANGED <<lastSTH, mu, leafTs>>

(* ------------------------------ the caller ----------------------------- *)
\* The caller takes the results and the frame is gone.
Done(t) ==
    /\ g[t].pc = "done"
    /\ g' = [g EXCEPT ![t] = Idle]
    /\ UNCHANGED <<lastSTH, mu, leafTs>>

(* ------------------- building LogInfo objects -------------------------- *)
\* log.Key values: the DER of two keys the verifier supports, of one it does
\* not, and bytes that are no DER public key.
Keys == {"ecdsa key", "rsa key", "dsa key", "not DER"}

\* x509.ParsePKIXPublicKey(log.Key): "" or its error.
ParsePKIXPublicKey(key) ==
    IF key = "not DER" THEN "asn1: structure error" ELSE ""

\* ct.NewSignatureVerifier(logKey): "" or its error.
NewSignatureVerifier(key) ==
    IF key = "dsa key" THEN "unsupported public key type" ELSE ""

\* sha256.Sum256(log.Key), injective.
Sum256(key) == <<"sha256", key>>

\* time.Second, in time.Duration's nanoseconds.
Second == 1000000000

\* log.MaximumMergeDelay values (seconds).
MergeDelays == {0, 2}

\* A URL is the sequence of its parts, the scheme first if it has one.
HasPrefix(url, prefix) == Len(url) > 0 /\ url[1] = prefix

\* log.DNSAPIEndpoint values: none declared, or a zone.
DNSAPIEndpoints == {"", "log.ct.example"}

\* loglist.Log entries: the description determines the address.
Descriptions == {Description, "Other Log"}
URLOf(d) ==
    IF d = Description THEN <<"log.example.com/ct">>
    ELSE <<"https://", "other.example.com/ct">>
Logs ==
    {[Description |-> d, URL |-> URLOf(d), Key |-> k, DNSAPIEndpoint |-> e,
      MaximumMergeDelay |-> md] :
        d \in Descriptions, k \in Keys, e \in DNSAPIEndpoints, md \in MergeDelays}

\* Longest log list.
MaxLogs == 2
LogLists == UNION {[1 .. n -> Logs] : n \in 0 .. MaxLogs}

\* Outcomes of client.New and dnsclient.New: "" or the error.
ClientErrs == {"", "invalid client options"}

\* What a function that builds one LogInfo returns: the *LogInfo, the error, and
\* the client constructor calls it made.
Built(li, made) == [li |-> Ptr(li), err |-> NoErr, made |-> made]
NotBuilt(e, made) == [li |-> Nil, err |-> e, made |-> made]

\* newLogInfo(log, lc); made: the constructor calls of the caller.
newLogInfo(log, lc, made) ==
    IF ParsePKIXPublicKey(log.Key) # ""
    THEN NotBuilt(Errorf("failed to parse public key data for log %q: %v",
                         log.Description, -1, ParsePKIXPublicKey(log.Key)), made)
    ELSE IF NewSignatureVerifier(log.Key) # ""
    THEN NotBuilt(Errorf("failed to build verifier log %q: %v",
                         log.Description, -1, NewSignatureVerifier(log.Key)), made)
    ELSE Built([Description |-> log.Description,
                Client |-> lc,
                MMD |-> log.MaximumMergeDelay * Second,
                Verifier |-> log.Key,
                PublicKey |-> log.Key,
                lastSTH |-> Nil], made)

\* NewLogInfo(log, hc); clientErr: what client.New returns for the entry.
NewLogInfo(log, clientErr) ==
    LET url == IF HasPrefix(log.URL, "https://") THEN log.URL
               ELSE <<"https://">> \o log.URL
        call == [fn |-> "client.New", addr |-> url, key |-> log.Key]
    IN  IF clientErr # ""
        THEN NotBuilt(Errorf("failed to create client for log %q: %v",
                             log.Description, -1, clientErr), <<call>>)
        ELSE newLogInfo(log, [kind |-> "http", addr |-> url, key |-> log.Key], <<call>>)

\* A NewLogInfoOverDNS that builds the HTTP-backed LogInfo for an entry with no
\* DNS endpoint.
NewLogInfoOverDNSFallback(log, clientErr) ==
    LET call == [fn |-> "dnsclient.New", addr |-> <<log.DNSAPIEndpoint>>, key |-> log.Key]
    IN  IF log.DNSAPIEndpoint = ""
        THEN NewLogInfo(log, clientErr)
        ELSE IF clientErr # ""
        THEN NotBuilt(Errorf("failed to create DNS client for log %q: %v",
                             log.Description, -1, clientErr), <<call>>)
        ELSE newLogInfo(log, [kind |-> "dns", addr |-> <<log.DNSAPIEndpoint>>,
                              key |-> log.Key], <<call>>)

\* NewLogInfoOverDNS(log); clientErr: what dnsclient.New returns for the entry.
NewLogInfoOverDNS(log, clientErr) ==
    LET call == [fn |-> "dnsclient.New", addr |-> <<log.DNSAPIEndpoint>>, key |-> log.Key]
    IN  IF log.DNSAPIEndpoint = ""
        THEN NotBuilt(Errorf("no available DNS endpoint for log %q", log.Description, -1, ""),
                      <<>>)
        ELSE IF clientErr # ""
        THEN NotBuilt(Errorf("failed to create DNS client for log %q: %v",
                             log.Description, -1, clientErr), <<call>>)
        ELSE newLogInfo(log, [kind |-> "dns", addr |-> <<log.DNSAPIEndpoint>>,
                              key |-> log.Key], <<call>>)

\* NewLogInfoOverDNSWrapper(log, _)
NewLogInfoOverDNSWrapper(log, clientErr) == NewLogInfoOverDNS(log, clientErr)

\* The infoFactory argument logInfoByKeyHash is called with.
infoFactory(op, log, clientErr) ==
    IF op = "LogInfoByKeyHash" THEN NewLogInfo(log, clientErr)
    ELSE NewLogInfoOverDNSWrapper(log, clientErr)

\* A logInfoByKeyHash that returns what it has built so far with the error.
logInfoByKeyHash_FailedPartial(result, e) == [ret |-> Map(result), err |-> e]

\* if err != nil { return nil, err }
logInfoByKeyHash_Failed(result, e) == [ret |-> NilMap, err |-> e]

\* An insertion that keeps the LogInfo already stored under the key hash.
logInfoByKeyHash_InsertIfAbsent(result, kh, li) ==
    [k \in DOMAIN result \cup {kh} |-> IF k \in DOMAIN result THEN result[k] ELSE li]

\* result[h] = li
logInfoByKeyHash_Insert(result, kh, li) ==
    [k \in DOMAIN result \cup {kh} |-> IF k = kh THEN li ELSE result[k]]

\* The frame of logInfoByKeyHash(ll, hc, infoFactory) called by op:
\* result := make(map[[sha256.Size]byte]*LogInfo)
logInfoByKeyHash_Enter(op, ll) ==
    [NoBuild EXCEPT !.pc = "loop", !.op = op, !.ll = ll, !.i = 1]

\* A caller calls LogInfoByKeyHash(ll, hc), for any log list ll.
LogInfoByKeyHash_Call ==
    /\ reg.pc = "idle"
    /\ \E ll \in LogLists : reg' = logInfoByKeyHash_Enter("LogInfoByKeyHash", ll)
    /\ UNCHANGED <<lastSTH, mu, leafTs, g, h, peer>>

\* A caller calls LogInfoByKeyHashOverDNS(ll, hc), for any log list ll.
LogInfoByKeyHashOverDNS_Call ==
    /\ reg.pc = "idle"
    /\ \E ll \in LogLists : reg' = logInfoByKeyHash_Enter("LogInfoByKeyHashOverDNS", ll)
    /\ UNCHANGED <<lastSTH, mu, leafTs, g, h, peer>>

\* One turn of the for loop of logInfoByKeyHash, for the entry at position i.
logInfoByKeyHash_Iterate(clientErr) ==
    /\ reg.pc = "loop" /\ reg.i <= Len(reg.ll)
    /\ LET log == reg.ll[reg.i]
           kh == Sum256(log.Key)
           b == infoFactory(reg.op, log, clientErr)
       IN  reg' = IF b.err # NoErr
                  THEN [reg EXCEPT !.pc = "done",
                                   !.ret = logInfoByKeyHash_Failed(reg.result, b.err).ret,
                                   !.err = logInfoByKeyHash_Failed(reg.result, b.err).err,
                                   !.made = @ \o b.made]
                  ELSE [reg EXCEPT !.result = logInfoByKeyHash_Insert(@, kh, b.li),
                                   !.i = @ + 1,
                                   !.made = @ \o b.made]
    /\ UNCHANGED <<lastSTH, mu, leafTs, g, h, peer>>

\* return result, nil
logInfoByKeyHash_Return ==
    /\ reg.pc = "loop" /\ reg.i > Len(reg.ll)
    /\ reg' = [reg EXCEPT !.pc = "done", !.ret = Map(reg.result), !.err = NoErr]
    /\ UNCHANGED <<lastSTH, mu, leafTs, g, h, peer>>

\* The frame of a caller to whom op, called for entry log, has returned b.
BuildReturned(op, log, b) ==
    [NoBuild EXCEPT !.pc = "done", !.op = op, !.ll = <<log>>,
                    !.li = b.li, !.err = b.err, !.made = b.made]

\* A caller calls NewLogInfo(log, hc).
NewLogInfo_Call(log, clientErr) ==
    /\ reg.pc = "idle"
    /\ reg' = BuildReturned("NewLogInfo", log, NewLogInfo(log, clientErr))
    /\ UNCHANGED <<lastSTH, mu, leafTs, g, h, peer>>

\* A caller calls NewLogInfoOverDNS(log).
NewLogInfoOverDNS_Call(log, clientErr) ==
    /\ reg.pc = "idle"
    /\ reg' = BuildReturned("NewLogInfoOverDNS", log, NewLogInfoOverDNS(log, clientErr))
    /\ UNCHANGED <<lastSTH, mu, leafTs, g, h, peer>>

\* A caller calls NewLogInfoOverDNSWrapper(log, hc).
NewLogInfoOverDNSWrapper_Call(log, clientErr) ==
    /\ reg.pc = "idle"
    /\ reg' = BuildReturned("NewLogInfoOverDNSWrapper", log,
                             NewLogInfoOverDNSWrapper(log, clientErr))
    /\ UNCHANGED <<lastSTH, mu, leafTs, g, h, peer>>

\* The caller takes the results.
Build_Done ==
    /\ reg.pc = "done"
    /\ reg' = NoBuild
    /\ UNCHANGED <<lastSTH, mu, leafTs, g, h, peer>>

(* ------------------- LastSTH and SetSTH of a second LogInfo ------------ *)
\* The methods touch the fields of their receiver only.  While goroutine t is
\* inside a call whose receiver is the second LogInfo, g[t].pc is "peer" and
\* the frame of the call is peer.g[t]; the first LogInfo is left alone.

\* A goroutine calls peer.LastSTH().
LastSTH_Call_Peer(t) ==
    /\ g[t].pc = "idle"
    /\ g' = [g EXCEPT ![t].pc = "peer"]
    /\ peer' = [peer EXCEPT !.g[t] = [PeerIdle EXCEPT !.pc = "LastSTH_RLock", !.op = "LastSTH"]]
    /\ UNCHANGED <<lastSTH, mu, leafTs, h, reg>>

\* li.mu.RLock(), li being the second LogInfo
LastSTH_RLock_Peer(t) ==
    /\ peer.g[t].pc = "LastSTH_RLock"
    /\ peer.mu.w = NoThread
    /\ peer' = [peer EXCEPT !.mu.r = @ \cup {t}, !.g[t].pc = "LastSTH_read"]
    /\ UNCHANGED <<lastSTH, mu, leafTs, g, h, reg>>

\* return li.lastSTH, then the deferred li.mu.RUnlock(), li being the second LogInfo
LastSTH_Read_Peer(t) ==
    /\ peer.g[t].pc = "LastSTH_read"
    /\ peer' = [peer EXCEPT !.mu.r = @ \ {t}, !.g[t].pc = "done", !.g[t].sth = peer.lastSTH]
    /\ UNCHANGED <<lastSTH, mu, leafTs, g, h, reg>>

\* A goroutine calls peer.SetSTH(p).
SetSTH_Call_Peer(t, p) ==
    /\ g[t].pc = "idle"
    /\ g' = [g EXCEPT ![t].pc = "peer"]
    /\ peer' = [peer EXCEPT !.g[t] = [pc |-> "SetSTH_Lock", op |-> "SetSTH", sth |-> p]]
    /\ UNCHANGED <<lastSTH, mu, leafTs, h, reg>>

\* li.mu.Lock(), li being the second LogInfo
SetSTH_Lock_Peer(t) ==
    /\ peer.g[t].pc = "SetSTH_Lock"
    /\ peer.mu.w = NoThread /\ peer.mu.r = {}
    /\ peer' = [peer EXCEPT !.mu.w = t, !.g[t].pc = "SetSTH_write"]
    /\ UNCHANGED <<lastSTH, mu, leafTs, g, h, reg>>

\* li.lastSTH = sth, then the deferred li.mu.Unlock(), li being the second LogInfo
SetSTH_Write_Peer(t) ==
    /\ peer.g[t].pc = "SetSTH_write"
    /\ peer' = [peer EXCEPT !.lastSTH = SetSTH_Store(@, peer.g[t].sth),
                            !.mu.w = NoThread, !.g[t].pc = "done"]
    /\ UNCHANGED <<lastSTH, mu, leafTs, g, h, reg>>

\* The caller takes the result of its call on the second LogInfo.
Done_Peer(t) ==
    /\ peer.g[t].pc = "done"
    /\ g' = [g EXCEPT ![t] = Idle]
    /\ peer' = [peer EXCEPT !.g[t] = PeerIdle]
    /\ UNCHANGED <<lastSTH, mu, leafTs, h, reg>>

(* --------------------------- specifications --------------------------- *)
\* A step nobody observes.
Free(Act) == Act /\ UNCHANGED <<h, reg, peer>>

\* What the observer of caller t records at a step of t: the cache and the leaf
\* when a call starts, the call that has just returned when its frame goes.
Observe(t) ==
    IF g[t].pc = "idle" THEN [h EXCEPT !.cache0 = lastSTH, !.leaf0 = leafTs]
    ELSE IF g[t].pc = "done"
         THEN [h EXCEPT !.prev = [op |-> g[t].op, nGetSTH |-> g[t].nGetSTH,
                                  failed |-> g[t].nGetSTH > 0 /\ g[t].fetched = Nil],
                        !.kept = IF g[t].fetched # Nil /\ g[t].err # NoErr THEN g[t].fetched
                                 ELSE IF g[t].op \in {"VerifyInclusion", "SetSTH"} THEN Nil
                                 ELSE @]
         ELSE h

\* A step of the observed caller t.
Seen(t, Act) == Act /\ h' = Observe(t) /\ UNCHANGED <<reg, peer>>

\* Any number of goroutines, any calls, any interleaving.
Next ==
    \E t \in Threads :
        \/ Free(LastSTH_Call(t))
        \/ Free(LastSTH_RLock(t))
        \/ Free(LastSTH_Read(t))
        \/ \E p \in STHPtrs : Free(SetSTH_Call(t, p))
        \/ Free(SetSTH_Lock(t))
        \/ Free(SetSTH_Write(t))
        \/ \E s \in SCTs : Free(VerifySCTSignature_Call(t, s))
        \/ Free(VerifySCTSignature_Timestamp(t))
        \/ Free(VerifySCTSignature_Verify(t))
        \/ \E ts \in Timestamps : Free(VerifyInclusionLatest_Call(t, ts))
        \/ \E ts \in Timestamps : Free(VerifyInclusion_Call(t, ts))
        \/ \E s \in STHs : Free(GetSTH_Return(t, s))
        \/ \E cause \in TransportErrs : Free(GetSTH_Fail(t, cause))
        \/ \E ts \in Timestamps, size \in TreeSizes, root \in RootHashes :
               Free(VerifyInclusionAt_Call(t, ts, size, root))
        \/ Free(VerifyInclusionAt_Timestamp(t))
        \/ \E encodable \in BOOLEAN : Free(VerifyInclusionAt_LeafHash(t, encodable))
        \/ \E r \in ProofResponses : Free(GetProofByHash_Return(t, r))
        \/ \E cause \in TransportErrs : Free(GetProofByHash_Fail(t, cause))
        \/ Free(Done(t))

Spec == Init /\ [][Next]_vars

\* One caller, whose calls follow one another with no other goroutine running.
Caller == "t1"

NextSeq ==
    \/ Seen(Caller, LastSTH_Call(Caller))
    \/ Seen(Caller, LastSTH_RLock(Caller))
    \/ Seen(Caller, LastSTH_Read(Caller))
    \/ \E p \in STHPtrs : Seen(Caller, SetSTH_Call(Caller, p))
    \/ Seen(Caller, SetSTH_Lock(Caller))
    \/ Seen(Caller, SetSTH_Write(Caller))
    \/ \E s \in SCTs : Seen(Caller, VerifySCTSignature_Call(Caller, s))
    \/ Seen(Caller, VerifySCTSignature_Timestamp(Caller))
    \/ Seen(Caller, VerifySCTSignature_Verify(Caller))
    \/ \E ts \in Timestamps : Seen(Caller, VerifyInclusionLatest_Call(Caller, ts))
    \/ \E ts \in Timestamps : Seen(Caller, VerifyInclusion_Call(Caller, ts))
    \/ \E s \in STHs : Seen(Caller, GetSTH_Return(Caller, s))
    \/ \E cause \in TransportErrs : Seen(Caller, GetSTH_Fail(Caller, cause))
    \/ \E ts \in Timestamps, size \in TreeSizes, root \in RootHashes :
           Seen(Caller, VerifyInclusionAt_Call(Caller, ts, size, root))
    \/ Seen(Caller, VerifyInclusionAt_Timestamp(Caller))
    \/ \E encodable \in BOOLEAN : Seen(Caller, VerifyInclusionAt_LeafHash(Caller, encodable))
    \/ \E r \in ProofResponses : Seen(Caller, GetProofByHash_Return(Caller, r))
    \/ \E cause \in TransportErrs : Seen(Caller, GetProofByHash_Fail(Caller, cause))
    \/ Seen(Caller, Done(Caller))

SpecSeq == Init /\ [][NextSeq]_vars

\* Any number of goroutines, all of whose calls are VerifyInclusionLatest calls.
NextLatest ==
    \E t \in Threads :
        \/ \E ts \in Timestamps : Free(VerifyInclusionLatest_Call(t, ts))
        \/ Free(LastSTH_RLock(t))
        \/ Free(LastSTH_Read(t))
        \/ \E s \in STHs : Free(GetSTH_Return(t, s))
        \/ \E cause \in TransportErrs : Free(GetSTH_Fail(t, cause))
        \/ Free(SetSTH_Lock(t))
        \/ Free(SetSTH_Write(t))
        \/ Free(VerifyInclusionAt_Timestamp(t))
        \/ \E encodable \in BOOLEAN : Free(VerifyInclusionAt_LeafHash(t, encodable))
        \/ \E r \in ProofResponses : Free(GetProofByHash_Return(t, r))
        \/ \E cause \in TransportErrs : Free(GetProofByHash_Fail(t, cause))
        \/ Free(Done(t))

SpecLatest == Init /\ [][NextLatest]_vars

\* One goroutine making the calls that go to the transport, the other calling
\* LastSTH and SetSTH meanwhile; both also call LastSTH and SetSTH of a second
\* LogInfo.
Fetcher == "t1"
Accessor == "t2"

NextLock ==
    \/ \E ts \in Timestamps : Free(VerifyInclusionLatest_Call(Fetcher, ts))
    \/ \E ts \in Timestamps : Free(VerifyInclusion_Call(Fetcher, ts))
    \/ \E s \in STHs : Free(GetSTH_Return(Fetcher, s))
    \/ \E cause \in TransportErrs : Free(GetSTH_Fail(Fetcher, cause))
    \/ Free(VerifyInclusionAt_Timestamp(Fetcher))
    \/ \E encodable \in BOOLEAN : Free(VerifyInclusionAt_LeafHash(Fetcher, encodable))
    \/ \E r \in ProofResponses : Free(GetProofByHash_Return(Fetcher, r))
    \/ \E cause \in TransportErrs : Free(GetProofByHash_Fail(Fetcher, cause))
    \/ Free(LastSTH_Call(Accessor))
    \/ \E p \in STHPtrs : Free(SetSTH_Call(Accessor, p))
    \/ \E t \in Threads :
           \/ Free(LastSTH_RLock(t))
           \/ Free(LastSTH_Read(t))
           \/ Free(SetSTH_Lock(t))
           \/ Free(SetSTH_Write(t))
           \/ Free(Done(t))
           \/ LastSTH_Call_Peer(t)
           \/ LastSTH_RLock_Peer(t)
           \/ LastSTH_Read_Peer(t)
           \/ \E p \in STHPtrs_Peer : SetSTH_Call_Peer(t, p)
           \/ SetSTH_Lock_Peer(t)
           \/ SetSTH_Write_Peer(t)
           \/ Done_Peer(t)

\* The scheduler runs a goroutine that can run, and sync.RWMutex starves
\* neither readers nor writers: a goroutine that could take the lock again
\* and again does take it.  A goroutine is at one statement at a time, so at
\* most one of its lock steps, and at most one of its load, store and unlock
\* steps, is possible in a state: fairness to the disjunction is fairness to
\* each of them.  Nothing makes a transport call return.
FairLock ==
    \A t \in Threads :
        /\ SF_vars(\/ Free(LastSTH_RLock(t)) \/ Free(SetSTH_Lock(t))
                   \/ LastSTH_RLock_Peer(t) \/ SetSTH_Lock_Peer(t))
        /\ WF_vars(\/ Free(LastSTH_Read(t)) \/ Free(SetSTH_Write(t))
                   \/ LastSTH_Read_Peer(t) \/ SetSTH_Write_Peer(t))

SpecLock == Init /\ [][NextLock]_vars /\ FairLock

\* The construction calls, one after the other, over every log list.
NextRegistry ==
    \/ LogInfoByKeyHash_Call
    \/ LogInfoByKeyHashOverDNS_Call
    \/ \E clientErr \in ClientErrs : logInfoByKeyHash_Iterate(clientErr)
    \/ logInfoByKeyHash_Return
    \/ \E log \in Logs, clientErr \in ClientErrs : NewLogInfo_Call(log, clientErr)
    \/ \E log \in Logs, clientErr \in ClientErrs : NewLogInfoOverDNS_Call(log, clientErr)
    \/ \E log \in Logs, clientErr \in ClientErrs : NewLogInfoOverDNSWrapper_Call(log, clientErr)
    \/ Build_Done

SpecRegistry == Init /\ [][NextRegistry]_vars

(* ------------------------------ properties ----------------------------- *)
InCall(t, o) == g[t].op = o /\ g[t].pc \notin {"idle", "done"}

\* C1: under any interleaving of calls, the cached STH is Nil or one whole tree
\* head: every step that changes li.lastSTH is the store of one goroutine's
\* SetSTH, and installs exactly the pointer that goroutine holds, which is the
\* argument of a SetSTH call or the tree head a successful GetSTH returned to
\* the VerifyInclusionLatest / VerifyInclusion call making the store.
C1_CacheIsOneFetchedSTH ==
    /\ [](lastSTH \in STHPtrs)
    /\ [][lastSTH' # lastSTH =>
            \E t \in Threads :
                /\ g[t].pc = "SetSTH_write"
                /\ mu.w = t
                /\ lastSTH' = g[t].sth
                /\ g[t].op # "SetSTH" =>
                       g[t].fetched # Nil /\ g[t].sth = g[t].fetched /\ g[t].nGetSTH = 1]_vars

\* C1 witness: the cache holds the tree head one VerifyInclusionLatest call fetched
\* and stored, while a concurrent VerifyInclusion call holds the write lock and is
\* about to replace it by a different tree head it fetched.
C1_Witness ==
    \E t, u \in Threads :
        /\ t # u
        /\ InCall(t, "VerifyInclusionLatest") /\ g[t].fetched # Nil /\ lastSTH = g[t].fetched
        /\ InCall(u, "VerifyInclusion") /\ g[u].pc = "SetSTH_write"
        /\ g[u].fetched # lastSTH

\* C2: when all calls are VerifyInclusionLatest calls, the cached STH, once set,
\* is never replaced by an STH with a smaller tree size (nor dropped).
C2_LatestNeverShrinksCache ==
    [][lastSTH # Nil =>
          /\ lastSTH' # Nil
          /\ lastSTH'[1].TreeSize >= lastSTH[1].TreeSize]_vars

Returned(t, o) == g[t].pc = "done" /\ g[t].op = o
InVerifyInclusionAt(t) ==
    g[t].pc \in {"VerifyInclusionAt_timestamp", "VerifyInclusionAt_leafHash", "GetProofByHash"}
Cancelled(e) == e # NoErr /\ e.v = "context canceled"
InclusionOps == {"VerifyInclusionLatest", "VerifyInclusion", "VerifyInclusionAt"}

\* C3 as stated: a VerifyInclusionLatest or VerifyInclusion call one of whose
\* transport calls was cancelled returns an error and leaves the cached STH the
\* value it was when the call started.
C3_CancelLeavesCacheAsBefore ==
    \A o \in {"VerifyInclusionLatest", "VerifyInclusion"} :
        Returned(Caller, o) /\ Cancelled(g[Caller].err) =>
            /\ g[Caller].ret = -1
            /\ lastSTH = h.cache0

\* C3 amended: such a call returns an error (index -1); when its tree-head fetch
\* was the cancelled call, or it made none, the cached STH is the value it was
\* when the call started; when its proof fetch was cancelled after it fetched
\* a tree head, the cached STH is the tree head the call fetched.
C3_CancelKeepsOnlyFetchedSTH ==
    \A o \in {"VerifyInclusionLatest", "VerifyInclusion"} :
        Returned(Caller, o) /\ Cancelled(g[Caller].err) =>
            /\ g[Caller].ret = -1
            /\ lastSTH = IF g[Caller].fetched = Nil THEN h.cache0 ELSE g[Caller].fetched

\* C3 witness: a VerifyInclusion call whose proof fetch was cancelled has
\* returned, and the cache holds the tree head it fetched, not the earlier one.
C3_Witness ==
    /\ Returned(Caller, "VerifyInclusion") /\ Cancelled(g[Caller].err)
    /\ g[Caller].nGetProof = 1
    /\ h.cache0 # Nil /\ g[Caller].fetched # h.cache0 /\ lastSTH = g[Caller].fetched

\* C4 as stated: of two VerifyInclusionLatest calls made one after the other,
\* at most one GetSTH call is made in total.
C4_TwoLatestOneFetch ==
    Returned(Caller, "VerifyInclusionLatest") /\ h.prev.op = "VerifyInclusionLatest" =>
        h.prev.nGetSTH + g[Caller].nGetSTH <= 1

\* C4 amended: of two VerifyInclusionLatest calls made one after the other, the
\* second makes no GetSTH call, and at most one is made in total, unless the
\* GetSTH call of the first failed; then the second makes one of its own.
C4_SecondLatestReusesCache ==
    \A f \in {g[Caller]} :
        f.op = "VerifyInclusionLatest" /\ h.prev.op = "VerifyInclusionLatest"
        /\ f.pc \notin {"LastSTH_RLock", "LastSTH_read"} =>
            /\ ~h.prev.failed => f.nGetSTH = 0 /\ h.prev.nGetSTH + f.nGetSTH <= 1
            /\ h.prev.failed => f.nGetSTH = 1

\* C4 witness: the second of two successive VerifyInclusionLatest calls has
\* returned without a GetSTH call, the first having made one.
C4_Witness ==
    /\ Returned(Caller, "VerifyInclusionLatest") /\ g[Caller].nGetSTH = 0
    /\ h.prev.op = "VerifyInclusionLatest" /\ h.prev.nGetSTH = 1

\* C5: every VerifyInclusion call makes exactly one GetSTH call, whatever the
\* cache holds, and the tree size and root hash it passes to VerifyInclusionAt
\* are those of the tree head that GetSTH call returned.
C5_VerifyInclusionFetchesOnce ==
    \A t \in Threads :
        g[t].op = "VerifyInclusion" =>
            /\ g[t].nGetSTH = 1
            /\ InVerifyInclusionAt(t) \/ g[t].nGetProof > 0 =>
                   g[t].fetched # Nil
            /\ InVerifyInclusionAt(t) =>
                   /\ g[t].treeSize = g[t].fetched[1].TreeSize
                   /\ g[t].rootHash = g[t].fetched[1].SHA256RootHash

\* C5 witness: a VerifyInclusion call that started on a non-empty cache waits
\* for its proof, asked for at the size of the tree head it fetched, while the
\* cache holds another tree head.
C5_Witness ==
    \E t \in Threads :
        /\ g[t].op = "VerifyInclusion" /\ g[t].pc = "GetProofByHash"
        /\ lastSTH # Nil /\ lastSTH # g[t].fetched
        /\ lastSTH[1].TreeSize # g[t].treeSize

\* C6: after a VerifyInclusion call with no other writer, the cached STH is the
\* tree head the call fetched, also when its tree is smaller than or as large
\* as the one cached before; when the fetch failed, the call returns an error
\* and the cached STH is what it was.  After SetSTH(p) it is p.
C6_VerifyInclusionOverwrites ==
    /\ Returned(Caller, "VerifyInclusion") =>
           IF g[Caller].fetched # Nil
           THEN lastSTH = g[Caller].fetched
           ELSE lastSTH = h.cache0 /\ g[Caller].err # NoErr /\ g[Caller].ret = -1
    /\ Returned(Caller, "SetSTH") => lastSTH = g[Caller].sth

\* C6 witness: a VerifyInclusion call has returned, having replaced the cached
\* tree head by the smaller one it fetched.
C6_Witness ==
    /\ Returned(Caller, "VerifyInclusion")
    /\ h.cache0 # Nil /\ g[Caller].fetched # Nil
    /\ g[Caller].fetched[1].TreeSize < h.cache0[1].TreeSize
    /\ lastSTH = g[Caller].fetched

\* C7: an inclusion call returns an index >= 0 only with a nil error, after
\* its one GetProofByHash call returned a response that the Merkle verifier
\* accepted for the call's tree size, root hash and leaf hash, and the index is
\* the response's LeafIndex; a response the verifier rejects makes the call
\* return -1 and an error.  Every error comes with index -1.
C7_IndexOnlyFromVerifiedProof ==
    /\ [](\A t \in Threads :
             g[t].pc = "done" /\ g[t].op \in InclusionOps =>
                 /\ g[t].ret >= 0 =>
                        /\ g[t].err = NoErr
                        /\ g[t].nGetProof = 1
                        /\ g[t].rsp \in ProofResponses
                        /\ g[t].ret = g[t].rsp.LeafIndex
                 /\ g[t].err # NoErr <=> g[t].ret = -1)
    /\ [][\A t \in Threads :
             g[t].pc = "GetProofByHash" /\ g'[t].pc = "done" =>
                 /\ g'[t].ret >= 0 => ProofVerdict(g[t], g'[t].rsp) = ""
                 /\ ProofVerdict(g[t], g'[t].rsp) # "" =>
                        g'[t].ret = -1 /\ g'[t].err # NoErr]_vars

\* C7 witness: a VerifyInclusionLatest call has returned index 1, the index the
\* transport reported for the leaf in a tree of two leaves.
C7_Witness ==
    \E t \in Threads :
        /\ Returned(t, "VerifyInclusionLatest")
        /\ g[t].ret = 1 /\ g[t].rsp.LeafIndex = 1 /\ g[t].err = NoErr
        /\ g[t].sth[1].TreeSize = 2

\* What a caller can tell of an error without reading its text: its dynamic
\* type (fmt.Errorf with %v wraps nothing, so there is no chain to unwrap).
ErrorKind(e) == e.dynType

\* The failures of the taxonomy, told by what happened in the call.
SignatureInvalid(f) == f.pc = "done" /\ f.op = "VerifySCTSignature" /\ f.err # NoErr
ProofInvalid(f) ==
    f.pc = "done" /\ f.op \in InclusionOps /\ f.err # NoErr /\ f.rsp \in ProofResponses
TransportError(f) ==
    /\ f.pc = "done" /\ f.op \in InclusionOps /\ f.err # NoErr
    /\ \/ f.nGetSTH = 1 /\ f.fetched = Nil
       \/ f.nGetProof = 1 /\ f.rsp = NoRsp

\* C8: the error of a failed signature check and the error of a rejected proof
\* differ in kind from the error of a failed transport call.
C8_ErrorKindsDistinguishable ==
    \A t, u \in Threads :
        (SignatureInvalid(g[t]) \/ ProofInvalid(g[t])) /\ TransportError(g[u]) =>
            ErrorKind(g[t].err) # ErrorKind(g[u].err)

\* C9: every error a call returns carries the log's description, and a call in
\* which a step failed returns an error.
C9_ErrorsCarryDescription ==
    \A f \in {g[Caller]} :
        f.pc = "done" =>
            /\ f.err # NoErr => f.err.q = Description
            /\ f.op \in InclusionOps /\ f.ret < 0 => f.err # NoErr

\* C10: when VerifySCTSignature or VerifyInclusionAt has returned, the timestamp
\* of the caller's leaf is what it was when the call started.
C10_LeafUnchangedByCall ==
    \A o \in {"VerifySCTSignature", "VerifyInclusionAt"} :
        Returned(Caller, o) => leafTs = h.leaf0

\* C10, concurrent calls on one leaf: the leaf hash a call asks the proof for is
\* the hash of the leaf with the call's own timestamp.  (TLC finds this violated
\* under Spec: the store of one call lands between the store and the hashing of
\* the other.)
C10_HashesOwnTimestamp ==
    \A t \in Threads :
        g[t].pc = "GetProofByHash" => g[t].leafHash = LeafHashForLeaf(g[t].timestamp)

\* A goroutine is inside a transport call.
InTransport(t) == g[t].pc \in {"GetSTH", "GetProofByHash"}
HoldsLock(t) == mu.w = t \/ t \in mu.r
\* Goroutine t holds the mutex of the second LogInfo.
HoldsLock_Peer(t) == peer.mu.w = t \/ t \in peer.mu.r

\* C11: a goroutine holds the mutex of a LogInfo only across the one load of
\* LastSTH or the one store of SetSTH on that LogInfo, never both holds at once
\* and never inside a transport call; no goroutine holds the mutexes of the two
\* LogInfos at once; and, whether or not the transport calls of other goroutines
\* ever return, every LastSTH and every SetSTH that has started, on either
\* LogInfo, gets its lock and returns.
C11_NoLockAcrossTransport ==
    /\ [](\A t \in Threads :
             /\ mu.w = t => g[t].pc = "SetSTH_write"
             /\ t \in mu.r => g[t].pc = "LastSTH_read"
             /\ ~(mu.w = t /\ t \in mu.r)
             /\ InTransport(t) => ~HoldsLock(t) /\ ~HoldsLock_Peer(t)
             /\ peer.mu.w = t => peer.g[t].pc = "SetSTH_write"
             /\ t \in peer.mu.r => peer.g[t].pc = "LastSTH_read"
             /\ ~(peer.mu.w = t /\ t \in peer.mu.r)
             /\ ~(HoldsLock(t) /\ HoldsLock_Peer(t)))
    /\ \A t \in Threads :
           /\ (g[t].pc = "LastSTH_RLock") ~> (g[t].pc \notin {"LastSTH_RLock", "LastSTH_read"})
           /\ (g[t].pc = "SetSTH_Lock") ~> (g[t].pc \notin {"SetSTH_Lock", "SetSTH_write"})
           /\ (peer.g[t].pc = "LastSTH_RLock") ~> (peer.g[t].pc = "done")
           /\ (peer.g[t].pc = "SetSTH_Lock") ~> (peer.g[t].pc = "done")

\* C11 witness: the fetcher is inside GetProofByHash, having cached the tree
\* head it fetched; since then a SetSTH of the other goroutine has replaced
\* that tree head, and the other goroutine is now in SetSTH of the second
\* LogInfo, holding that LogInfo's mutex and no other.
C11_Witness ==
    /\ g[Fetcher].pc = "GetProofByHash" /\ g[Fetcher].fetched # Nil
    /\ lastSTH # g[Fetcher].fetched
    /\ peer.g[Accessor].pc = "SetSTH_write" /\ peer.mu.w = Accessor
    /\ ~HoldsLock(Accessor)

\* The frame is past the cache read of VerifyInclusionLatest.
PastCacheRead(f) == f.pc \notin {"idle", "LastSTH_RLock", "LastSTH_read"}
UsesTreeHead(f, p) ==
    f.treeSize = p[1].TreeSize /\ f.rootHash = p[1].SHA256RootHash

\* C15: a VerifyInclusionLatest call that found a tree head in the cache makes
\* no GetSTH call, never enters SetSTH, leaves the cache as it was and runs
\* VerifyInclusionAt with that tree head's size and root; one that found the
\* cache empty makes one GetSTH call, stores the tree head it returned (the cache
\* holds it from the store on), and runs VerifyInclusionAt with its size and root;
\* when that GetSTH call failed the cache stays empty.
C15_LatestCachedOrFetched ==
    \A f \in {g[Caller]} :
        f.op = "VerifyInclusionLatest" /\ PastCacheRead(f) =>
            IF h.cache0 # Nil
            THEN /\ f.nGetSTH = 0 /\ f.fetched = Nil
                 /\ f.pc \notin {"GetSTH", "SetSTH_Lock", "SetSTH_write"}
                 /\ f.sth = h.cache0 /\ lastSTH = h.cache0
                 /\ InVerifyInclusionAt(Caller) => UsesTreeHead(f, h.cache0)
            ELSE /\ f.nGetSTH = 1
                 /\ f.pc \in {"GetSTH", "SetSTH_Lock", "SetSTH_write"} => lastSTH = Nil
                 /\ f.fetched = Nil => lastSTH = Nil /\ f.pc \in {"GetSTH", "done"}
                 /\ f.fetched # Nil =>
                        /\ f.sth = f.fetched
                        /\ f.pc \notin {"SetSTH_Lock", "SetSTH_write"} => lastSTH = f.fetched
                 /\ InVerifyInclusionAt(Caller) => UsesTreeHead(f, f.fetched)
                 /\ f.pc = "done" /\ f.ret >= 0 => lastSTH = f.fetched /\ f.fetched # Nil

\* C15 witness: a VerifyInclusionLatest call on an empty cache has returned
\* index 1 of a tree of two leaves and the cache holds that tree head; before
\* it, a VerifyInclusionLatest call had failed in its GetSTH call.
C15_Witness ==
    /\ Returned(Caller, "VerifyInclusionLatest")
    /\ h.cache0 = Nil /\ g[Caller].ret = 1 /\ g[Caller].nGetSTH = 1
    /\ lastSTH = g[Caller].fetched /\ lastSTH # Nil /\ lastSTH[1].TreeSize = 2
    /\ h.prev.op = "VerifyInclusionLatest" /\ h.prev.failed

\* What failed in a returned call, told by what the call did.
GetSTHFailed(f) == f.nGetSTH > 0 /\ f.fetched = Nil
LeafHashFailed(f) == f.err # NoErr /\ f.err.format = "failed to create leaf hash: %v"
GetProofFailed(f) == f.nGetProof > 0 /\ f.rsp = NoRsp

\* C16: a call makes at most one GetSTH call (VerifyInclusionAt none) and at most
\* one GetProofByHash call; a call whose GetSTH failed returns -1 and an error,
\* has made no GetProofByHash call and leaves the cache as it was; a call whose
\* leaf hashing failed returns -1 and an error and has made no GetProofByHash
\* call; a call whose GetProofByHash failed returns -1 and an error.
C16_NoRetry ==
    \A f \in {g[Caller]} :
        /\ f.nGetSTH <= 1 /\ f.nGetProof <= 1
        /\ f.op \notin {"VerifyInclusionLatest", "VerifyInclusion"} => f.nGetSTH = 0
        /\ f.op \notin InclusionOps => f.nGetProof = 0
        /\ f.pc = "done" /\ f.op \in InclusionOps =>
               /\ GetSTHFailed(f) =>
                      /\ f.ret = -1 /\ f.err # NoErr
                      /\ f.nGetProof = 0 /\ lastSTH = h.cache0
               /\ LeafHashFailed(f) => f.ret = -1 /\ f.nGetProof = 0
               /\ f.nGetProof = 0 => f.ret = -1 /\ (GetSTHFailed(f) \/ LeafHashFailed(f))
               /\ GetProofFailed(f) => f.ret = -1 /\ f.err # NoErr

\* C16 witness: a VerifyInclusion call on a non-empty cache has returned the
\* error of its failed GetSTH call, without a proof fetch, the cache as before.
C16_Witness ==
    /\ Returned(Caller, "VerifyInclusion") /\ GetSTHFailed(g[Caller])
    /\ g[Caller].nGetSTH = 1 /\ g[Caller].nGetProof = 0 /\ g[Caller].err # NoErr
    /\ h.cache0 # Nil /\ lastSTH = h.cache0

\* What VerifyInclusionAt's arguments and the transport's response r decide:
\* the verifier's verdict on r for the leaf with the timestamp passed.
VerdictOfArguments(f, r) ==
    VerifyInclusionProof(r.LeafIndex, f.treeSize, r.AuditPath, f.rootHash,
                         LeafHashForLeaf(f.timestamp))

\* C17: a VerifyInclusionAt or VerifySCTSignature call (made directly) leaves the
\* cached STH and the lock untouched at every step, so that the cache at its
\* return is the cache at its start; what VerifyInclusionAt returns for a proof
\* response is decided by its arguments and the response, and what
\* VerifySCTSignature returns by the SCT, whatever the cache holds.
C17_CacheNeitherReadNorWritten ==
    /\ [](\A o \in {"VerifyInclusionAt", "VerifySCTSignature"} :
             Returned(Caller, o) => lastSTH = h.cache0)
    /\ [][g'[Caller].op \in {"VerifyInclusionAt", "VerifySCTSignature"} =>
            /\ lastSTH' = lastSTH /\ mu' = mu
            /\ g[Caller].pc = "GetProofByHash" /\ g'[Caller].rsp # NoRsp =>
                   /\ g'[Caller].err = NoErr <=> VerdictOfArguments(g[Caller], g'[Caller].rsp) = ""
                   /\ g'[Caller].ret = IF VerdictOfArguments(g[Caller], g'[Caller].rsp) = ""
                                       THEN g'[Caller].rsp.LeafIndex ELSE -1
            /\ g[Caller].pc = "VerifySCTSignature_verify" =>
                   (g'[Caller].err = NoErr
                        <=> SignatureValid(g[Caller].sct, g[Caller].sct.Timestamp))]_vars

\* C17 witness: a VerifyInclusionAt call for a tree of two leaves has returned
\* index 1 while the cache holds, as before the call, a tree head of size 1.
C17_Witness ==
    /\ Returned(Caller, "VerifyInclusionAt") /\ g[Caller].ret = 1
    /\ lastSTH # Nil /\ lastSTH[1].TreeSize = 1 /\ h.cache0 = lastSTH

\* C18: under any interleaving, a VerifyInclusionLatest or VerifyInclusion call
\* holds one tree head in sth from its cache read or its GetSTH call on (the
\* cached one at the read, or the one it fetched); the tree size it passes to
\* GetProofByHash and the root hash it passes to the verifier are both that tree
\* head's, and the verdict is the verifier's for that size and that root,
\* whatever other goroutines store in the cache meanwhile.
C18_SizeAndRootOfOneSTH ==
    /\ [](\A t \in Threads :
             g[t].op \in {"VerifyInclusionLatest", "VerifyInclusion"} /\ InVerifyInclusionAt(t) =>
                 /\ g[t].sth # Nil
                 /\ UsesTreeHead(g[t], g[t].sth)
                 /\ g[t].fetched # Nil => g[t].sth = g[t].fetched)
    /\ [][\A t \in Threads :
             g[t].op \in {"VerifyInclusionLatest", "VerifyInclusion"} /\ g'[t] # g[t] =>
                 /\ g[t].pc = "LastSTH_read" => g'[t].sth = lastSTH
                 /\ g[t].sth # Nil /\ g[t].pc # "LastSTH_read" /\ g'[t].pc # "idle" =>
                        g'[t].sth = g[t].sth
                 /\ g[t].pc = "GetProofByHash" /\ g'[t].rsp # NoRsp =>
                        (g'[t].err = NoErr
                            <=> VerifyInclusionProof(g'[t].rsp.LeafIndex, g[t].sth[1].TreeSize,
                                                     g'[t].rsp.AuditPath,
                                                     g[t].sth[1].SHA256RootHash,
                                                     g[t].leafHash) = "")]_vars

\* C18 witness: a VerifyInclusionLatest call that read a tree head of size 1 from
\* the cache waits for its proof at size 1 and that head's root, while the
\* cache, replaced by another goroutine, holds a tree head of size 2 with
\* another root.
C18_Witness ==
    \E t \in Threads :
        /\ g[t].op = "VerifyInclusionLatest" /\ g[t].pc = "GetProofByHash"
        /\ g[t].fetched = Nil /\ g[t].sth[1].TreeSize = 1 /\ UsesTreeHead(g[t], g[t].sth)
        /\ lastSTH # Nil /\ lastSTH[1].TreeSize = 2
        /\ lastSTH[1].SHA256RootHash # g[t].rootHash

\* C19: a VerifyInclusionLatest or VerifyInclusion call has stored the tree head
\* it fetched before it makes its proof fetch, and the cache holds that tree
\* head from the store on, also when the call then returns an error; after
\* such a failed call, and until a VerifyInclusion or SetSTH call is made, the
\* cache keeps that tree head and every VerifyInclusionLatest call makes no
\* GetSTH call and runs VerifyInclusionAt with that tree head's size and root.
C19_FetchedSTHStaysCached ==
    \A f \in {g[Caller]} :
        /\ f.op \in {"VerifyInclusionLatest", "VerifyInclusion"} /\ f.fetched # Nil =>
               IF f.pc \in {"SetSTH_Lock", "SetSTH_write"}
               THEN f.nGetProof = 0
               ELSE lastSTH = f.fetched
        /\ f.nGetProof > 0 /\ f.nGetSTH > 0 => f.fetched # Nil /\ lastSTH = f.fetched
        /\ h.kept # Nil /\ f.op \notin {"VerifyInclusion", "SetSTH"} =>
               /\ lastSTH = h.kept
               /\ f.op = "VerifyInclusionLatest" /\ PastCacheRead(f) =>
                      /\ f.nGetSTH = 0 /\ f.sth = h.kept
                      /\ InVerifyInclusionAt(Caller) => UsesTreeHead(f, h.kept)

\* C19 witness: after a VerifyInclusion call that fetched a tree head of size 2
\* and then returned an error, a VerifyInclusionLatest call has returned index
\* 1 without a GetSTH call, using that tree head, which the cache still holds.
C19_Witness ==
    /\ Returned(Caller, "VerifyInclusionLatest")
    /\ h.prev.op = "VerifyInclusion" /\ h.kept # Nil /\ h.kept[1].TreeSize = 2
    /\ g[Caller].nGetSTH = 0 /\ g[Caller].sth = h.kept /\ g[Caller].ret = 1
    /\ lastSTH = h.kept

RegistryOps == {"LogInfoByKeyHash", "LogInfoByKeyHashOverDNS"}
DNSOps == {"NewLogInfoOverDNS", "NewLogInfoOverDNSWrapper"}
RegistryReturned == reg.pc = "done" /\ reg.op \in RegistryOps

\* No LogInfo can be built for the entry by the factory of op.
CannotBuild(op, log) ==
    \/ ParsePKIXPublicKey(log.Key) # ""
    \/ NewSignatureVerifier(log.Key) # ""
    \/ op = "LogInfoByKeyHashOverDNS" /\ log.DNSAPIEndpoint = ""

\* C12: a registry construction over a list with an entry for which no LogInfo
\* can be built returns an error, wherever the entry stands; whenever it returns
\* an error it returns the nil map, and a map only without error.
C12_AllOrNothing ==
    RegistryReturned =>
        /\ (\E i \in 1 .. Len(reg.ll) : CannotBuild(reg.op, reg.ll[i])) => reg.err # NoErr
        /\ reg.err # NoErr => reg.ret = NilMap
        /\ reg.err = NoErr => ~reg.ret.isNil

\* C12 witness: LogInfoByKeyHash over two entries has returned an error and the
\* nil map; the second entry's key is no DER key, and the LogInfo of the first
\* had been built and put in the local map.
C12_Witness ==
    /\ reg.pc = "done" /\ reg.op = "LogInfoByKeyHash" /\ Len(reg.ll) = 2
    /\ reg.ll[2].Key = "not DER" /\ reg.i = 2
    /\ DOMAIN reg.result = {Sum256(reg.ll[1].Key)}
    /\ reg.err # NoErr /\ reg.ret = NilMap

\* The *LogInfo p was built from entry log, by the factory of op.
BuiltFrom(op, p, log) ==
    /\ p # Nil
    /\ p[1].Description = log.Description
    /\ p[1].PublicKey = log.Key
    /\ p[1].MMD = log.MaximumMergeDelay * Second
    /\ p[1].lastSTH = Nil
    /\ p[1].Client.kind = IF op = "LogInfoByKeyHash" THEN "http" ELSE "dns"
    /\ p[1].Client.key = log.Key

\* C13 as stated: the map a registry construction returns without error has as
\* many entries as the log list, and under the hash of each entry's key the
\* LogInfo built from that entry.
C13_OneEntryPerLog ==
    RegistryReturned /\ reg.err = NoErr =>
        /\ Cardinality(DOMAIN reg.ret.m) = Len(reg.ll)
        /\ \A i \in 1 .. Len(reg.ll) :
               /\ Sum256(reg.ll[i].Key) \in DOMAIN reg.ret.m
               /\ BuiltFrom(reg.op, reg.ret.m[Sum256(reg.ll[i].Key)], reg.ll[i])

\* C13 amended: the map's keys are the hashes of the keys of the log list, one
\* entry per distinct key (as many as list entries when the keys are pairwise
\* distinct), and under the hash of a key the LogInfo built from the last
\* entry of the list with that key, with an empty cached STH.
C13_OneEntryPerKey ==
    RegistryReturned /\ reg.err = NoErr =>
        /\ DOMAIN reg.ret.m = {Sum256(reg.ll[i].Key) : i \in 1 .. Len(reg.ll)}
        /\ Cardinality(DOMAIN reg.ret.m) = Cardinality({reg.ll[i].Key : i \in 1 .. Len(reg.ll)})
        /\ \A i \in 1 .. Len(reg.ll) :
               (\A j \in 1 .. Len(reg.ll) : j > i => reg.ll[j].Key # reg.ll[i].Key) =>
                   BuiltFrom(reg.op, reg.ret.m[Sum256(reg.ll[i].Key)], reg.ll[i])

\* C13 witness: LogInfoByKeyHash over two entries with the same key and different
\* descriptions has returned a map of one entry, the LogInfo of the second.
C13_Witness ==
    /\ reg.pc = "done" /\ reg.op = "LogInfoByKeyHash" /\ reg.err = NoErr
    /\ Len(reg.ll) = 2 /\ reg.ll[1].Key = reg.ll[2].Key
    /\ reg.ll[1].Description # reg.ll[2].Description
    /\ reg.ll[2].MaximumMergeDelay = 2
    /\ Cardinality(DOMAIN reg.ret.m) = 1
    /\ BuiltFrom(reg.op, reg.ret.m[Sum256(reg.ll[2].Key)], reg.ll[2])

\* C14: NewLogInfoOverDNS and NewLogInfoOverDNSWrapper return no LogInfo and an
\* error for an entry with an empty DNS endpoint, having called no client
\* constructor; LogInfoByKeyHashOverDNS over a list with such an entry returns
\* an error and no map; the DNS functions call dnsclient.New only, never with
\* an empty endpoint, and every LogInfo they return has the DNS client.
C14_NoDNSEndpointNoLogInfo ==
    reg.pc = "done" /\ reg.op \in DNSOps \cup {"LogInfoByKeyHashOverDNS"} =>
        /\ reg.op \in DNSOps /\ reg.ll[1].DNSAPIEndpoint = "" =>
               reg.li = Nil /\ reg.err # NoErr /\ reg.made = <<>>
        /\ reg.op = "LogInfoByKeyHashOverDNS"
           /\ (\E i \in 1 .. Len(reg.ll) : reg.ll[i].DNSAPIEndpoint = "") =>
               reg.ret = NilMap /\ reg.err # NoErr
        /\ \A k \in 1 .. Len(reg.made) :
               reg.made[k].fn = "dnsclient.New" /\ reg.made[k].addr # <<"">>
        /\ reg.li # Nil => reg.li[1].Client.kind = "dns"
        /\ \A kh \in DOMAIN reg.ret.m : reg.ret.m[kh][1].Client.kind = "dns"

\* C14 witness: NewLogInfoOverDNSWrapper has returned the error "no available
\* DNS endpoint" for an entry with a good key and no DNS endpoint, without a
\* client constructor call.
C14_Witness ==
    /\ reg.pc = "done" /\ reg.op = "NewLogInfoOverDNSWrapper"
    /\ reg.ll[1].DNSAPIEndpoint = "" /\ reg.ll[1].Key = "ecdsa key"
    /\ reg.li = Nil /\ reg.made = <<>>
    /\ reg.err.format = "no available DNS endpoint for log %q"
    /\ reg.err.q = reg.ll[1].Description

====
